---- MODULE Spec2Model ----
(***************************************************************************)
(* Model of minitorch/cuda_ops.py: the host wrappers of CudaOps (map, zip, *)
(* reduce, matrix_multiply) and the four kernels they launch.              *)
(*                                                                         *)
(* A launch is a grid of blocks.  Blocks share nothing but the output      *)
(* storage; the model keeps one block resident at a time and dispatches    *)
(* the blocks of the grid in any order.  Inside the resident block every   *)
(* thread has its own position (pc) and the threads interleave freely.     *)
(* cuda.syncthreads() is modelled as numba's simulator and the hardware    *)
(* implement it: the waiting threads are released when every thread of     *)
(* the block that has not exited is waiting at some syncthreads().         *)
(*                                                                         *)
(* Dimensions are 0-based in the source and sequences 1-based here: the    *)
(* source's shape[d] is shape[d + 1].  Storages are functions on           *)
(* 0 .. size-1.                                                            *)
(***************************************************************************)
EXTENDS Integers, Sequences, FiniteSets, TLC

VARIABLES
    op,            \* operation in progress: "none", "map", "zip", "reduce", "matmul"
    host,          \* host position: "idle", "running", "returned", "error", "fault"
    fn,            \* the scalar function compiled into the kernel
    a, b, out,     \* tensor views [storage, shape, strides] passed to the kernel
    reduce_dim,    \* reduce: axis (0-based)
    reduce_value,  \* reduce: start value
    both_2d,       \* matrix_multiply: both operands were 2D
    grid,          \* the blocks of the launch (blockspergrid)
    pending,       \* blocks of the grid not yet dispatched
    block,         \* the resident block (blockIdx), or NoBlock
    pc,            \* position of every thread of the resident block
    local,         \* locals of every thread of the resident block
    cache,         \* reduce: the block's shared array
    a_shared,      \* matmul: shared tile of a
    b_shared,      \* matmul: shared tile of b
    cw,            \* history: last writer of every cache slot and the barrier count then
    bar,           \* history: the participants of every barrier the block has released
    wlog,          \* history: every store to the output storage, [blk, thr, slot, k]
    oob,           \* history: stores that fell outside the output storage
    src,           \* history: the operands as the caller passed them (reduce, matmul)
    calls          \* history: number of launches made by the host loop

vars == <<op, host, fn, a, b, out, reduce_dim, reduce_value, both_2d, grid, pending, block,
          pc, local, cache, a_shared, b_shared, cw, bar, wlog, oob, src, calls>>

----------------------------------------------------------------------------
(* Bounds of the model *)

\* log2 of the reduce kernel's BLOCK_DIM (1024 = 2^10 in the source)
LogBlockDim == 2
\* THREADS_PER_BLOCK of the source is 32
THREADS_PER_BLOCK == 2
\* largest extent of a dimension of a map / zip operand
MaxDim == 3
\* largest extent of the axis that is not reduced
MaxOuter == 2
\* largest operand and largest grid of a reduce launch
MaxSize == 10
MaxBlocks == 4
\* largest grid of a matmul launch
MaxGrid == 2
\* log2 of the block of sum_practice (32 = 2^5 in the source)
LogPracticeDim == 2

\* blockIdx and threadIdx are triples <<x, y, z>>
NoBlock == <<>>
NoThread == <<>>
NoTensor == [storage |-> <<>>, shape |-> <<>>, strides |-> <<>>]

\* what a load outside a storage, or of a shared slot never written, can return
Garbage == {0, 1000}

----------------------------------------------------------------------------
(* tensor_data.py: index arithmetic and shapes *)

RECURSIVE prod(_)
prod(s) == IF s = <<>> THEN 1 ELSE Head(s) * prod(Tail(s))

size(t) == prod(t.shape)

strides_from_shape(shape) ==
    [d \in 1..Len(shape) |-> prod(SubSeq(shape, d + 1, Len(shape)))]

RECURSIVE to_index_loop(_, _, _, _)
to_index_loop(cur_ord, shape, i, out_index) ==
    IF i = 0 THEN out_index
    ELSE to_index_loop(cur_ord \div shape[i], shape, i - 1,
                       [out_index EXCEPT ![i] = cur_ord % shape[i]])

\* the coordinate with the first dimension varying fastest
to_index_first_fastest(ordinal, shape) ==
    [d \in 1..Len(shape) |-> (ordinal \div prod(SubSeq(shape, 1, d - 1))) % shape[d]]

to_index(ordinal, shape) ==
    to_index_loop(ordinal, shape, Len(shape), [d \in 1..Len(shape) |-> 0])

RECURSIVE dot(_, _, _)
dot(index, strides, i) ==
    IF i = 0 THEN 0 ELSE index[i] * strides[i] + dot(index, strides, i - 1)

index_to_position(index, strides) == dot(index, strides, Len(strides))

broadcast_index(big_index, big_shape, shape) ==
    [i \in 1..Len(shape) |->
        IF shape[i] > 1 THEN big_index[i + (Len(big_shape) - Len(shape))] ELSE 0]

Max(x, y) == IF x >= y THEN x ELSE y

\* extent of dimension i of the broadcast result, shape s right-aligned to length n
Aligned(s, n, i) == IF i > n - Len(s) THEN s[i - (n - Len(s))] ELSE 1

broadcastable(s1, s2) ==
    LET n == Max(Len(s1), Len(s2)) IN
    \A i \in 1..n :
        \/ Aligned(s1, n, i) = Aligned(s2, n, i)
        \/ Aligned(s1, n, i) = 1
        \/ Aligned(s2, n, i) = 1

shape_broadcast(s1, s2) ==
    LET n == Max(Len(s1), Len(s2)) IN
    [i \in 1..n |-> Max(Aligned(s1, n, i), Aligned(s2, n, i))]

zeros(shape) ==
    [storage |-> [p \in 0..(prod(shape) - 1) |-> 0],
     shape   |-> shape,
     strides |-> strides_from_shape(shape)]

\* the element of view t at coordinate index
At(t, index) == t.storage[index_to_position(index, t.strides)]

\* the coordinates of a shape
Coords(shape) == {to_index(p, shape) : p \in 0..(prod(shape) - 1)}

----------------------------------------------------------------------------
(* Scalar functions *)

MapFns == {"square", "neg"}
ZipFns == {"add", "mul"}

apply1(f, x) == IF f = "square" THEN x * x ELSE 0 - x

apply2(f, x, y) ==
    CASE f = "add" -> x + y
      [] f = "mul" -> x * y
      [] f = "sub" -> x - y
      [] OTHER     -> x

----------------------------------------------------------------------------
(* Operands *)

\* the value stored at position p: 1, 2, 3, ... or 10, 20, 30, ... or 1, 2, 4, ...
Val(kind, p) ==
    CASE kind = "inc"  -> p + 1
      [] kind = "tens" -> 10 * (p + 1)
      [] OTHER         -> 2 ^ p

\* a contiguous tensor of the given shape
Contig(shape, kind) ==
    [storage |-> [p \in 0..(prod(shape) - 1) |-> Val(kind, p)],
     shape   |-> shape,
     strides |-> strides_from_shape(shape)]

\* the storage of Contig(shape, kind) seen through permute(1, 0): not contiguous
Permuted(shape, kind) ==
    [storage |-> [p \in 0..(prod(shape) - 1) |-> Val(kind, p)],
     shape   |-> <<shape[2], shape[1]>>,
     strides |-> <<1, shape[2]>>]

Shapes(m) == {<<n>> : n \in 1..m} \cup {<<n1, n2>> : n1 \in 1..m, n2 \in 1..m}

Views(shapes, kind) ==
    {Contig(s, kind) : s \in shapes}
        \cup {Permuted(s, kind) : s \in {x \in shapes : Len(x) = 2 /\ x[1] > 1 /\ x[2] > 1}}

Tensors(m, kind) == Views(Shapes(m), kind)

----------------------------------------------------------------------------
(* Global memory *)

\* the values a load of t.storage[p] can return
Load(t, p) == IF p \in DOMAIN t.storage THEN {t.storage[p]} ELSE Garbage

\* where a store past the end of the output storage can land in the input's storage
StrayTarget(t, p) == p % Cardinality(DOMAIN t.storage)

\* thread thr of the resident block stores v to out.storage[p].  A store outside the
\* storage is undefined: it lands in memory no tensor of the call owns, or it aborts
\* the launch, or it lands in the storage of the input.
StoreOut(thr, p, v) ==
    LET k == Cardinality({w \in wlog : w.blk = block /\ w.thr = thr}) + 1 IN
    /\ wlog' = wlog \cup {[blk |-> block, thr |-> thr, slot |-> p, k |-> k]}
    /\ IF p \in DOMAIN out.storage
       THEN /\ out' = [out EXCEPT !.storage[p] = v]
            /\ oob' = oob
            /\ host' = host
            /\ a' = a
       ELSE /\ out' = out
            /\ oob' = oob \cup {[blk |-> block, thr |-> thr, slot |-> p]}
            /\ \/ host' = host /\ a' = a
               \/ host' = "fault" /\ a' = a
               \/ host' = host /\ a' = [a EXCEPT !.storage[StrayTarget(a, p)] = v]

----------------------------------------------------------------------------
(* The state before any call *)

Init ==
    /\ op = "none"
    /\ host = "idle"
    /\ fn = "none"
    /\ a = NoTensor
    /\ b = NoTensor
    /\ out = NoTensor
    /\ reduce_dim = 0
    /\ reduce_value = 0
    /\ both_2d = FALSE
    /\ grid = {}
    /\ pending = {}
    /\ block = NoBlock
    /\ pc = <<>>
    /\ local = <<>>
    /\ cache = <<>>
    /\ a_shared = <<>>
    /\ b_shared = <<>>
    /\ cw = <<>>
    /\ bar = <<>>
    /\ wlog = {}
    /\ oob = {}
    /\ src = NoTensor
    /\ calls = 0

\* what a launch leaves alone
LaunchFrame == UNCHANGED <<both_2d, block, pc, local, cache, a_shared, b_shared, cw, bar>>

----------------------------------------------------------------------------
(* CudaOps.map *)

\* the out argument of ret: None (a.zeros(a.shape)) or the tensor the caller passes.
\* ret does not look at its shape; the model passes the shapes a broadcasts to and,
\* for a 1-D input, every length.
MapOuts(t) ==
    {zeros(t.shape)} \cup
        {zeros(s) : s \in {x \in Shapes(MaxDim) :
                              /\ Len(x) >= Len(t.shape)
                              /\ \/ Len(x) = 1
                                 \/ /\ broadcastable(x, t.shape)
                                    /\ shape_broadcast(x, t.shape) = x}}

\* a grid of n blocks along x
Grid1(n) == {<<x, 0, 0>> : x \in 0..(n - 1)}

\* blockspergrid of map, without the rounding up
MapBlocksNoRound(out_size) == out_size \div THREADS_PER_BLOCK

\* blockspergrid = (out.size + THREADS_PER_BLOCK - 1) // THREADS_PER_BLOCK
MapBlocks(out_size) == (out_size + THREADS_PER_BLOCK - 1) \div THREADS_PER_BLOCK

CallMap ==
    /\ host = "idle"
    /\ \E f \in MapFns, t \in Tensors(MaxDim, "inc") :
         \E o \in MapOuts(t) :
            /\ op' = "map"
            /\ fn' = f
            /\ a' = t
            /\ out' = o
            /\ grid' = Grid1(MapBlocks(prod(o.shape)))
            /\ pending' = grid'
    /\ host' = "running"
    /\ calls' = 1
    /\ UNCHANGED <<b, reduce_dim, reduce_value, wlog, oob, src>>
    /\ LaunchFrame

\* i = cuda.blockIdx.x * cuda.blockDim.x + cuda.threadIdx.x
MapIndex(blk, thr) == blk[1] * THREADS_PER_BLOCK + thr[1]

MapGuard(i, out_size) == i < out_size

\* _map, one thread
MapThread(thr) ==
    /\ op = "map"
    /\ host = "running"
    /\ block # NoBlock
    /\ pc[thr] = "run"
    /\ pc' = [pc EXCEPT ![thr] = "exit"]
    /\ LET i == MapIndex(block, thr) IN
       IF MapGuard(i, size(out))
       THEN LET out_index == to_index(i, out.shape)
                in_index  == broadcast_index(out_index, out.shape, a.shape)
            IN \E v \in Load(a, index_to_position(in_index, a.strides)) :
                  StoreOut(thr, index_to_position(out_index, out.strides), apply1(fn, v))
       ELSE UNCHANGED <<out, wlog, oob, host, a>>
    /\ UNCHANGED <<op, fn, b, reduce_dim, reduce_value, both_2d, grid, pending, block,
                   local, cache, a_shared, b_shared, cw, bar, src, calls>>

----------------------------------------------------------------------------
(* CudaOps.zip *)

\* blockspergrid = (out.size + (threadsperblock - 1)) // threadsperblock
ZipBlocks(out_size) == (out_size + (THREADS_PER_BLOCK - 1)) \div THREADS_PER_BLOCK

CallZip ==
    /\ host = "idle"
    /\ \E f \in ZipFns, t1 \in Tensors(MaxDim, "inc"), t2 \in Tensors(MaxDim, "tens") :
         /\ op' = "zip"
         /\ fn' = f
         /\ a' = t1
         /\ b' = t2
         /\ IF broadcastable(t1.shape, t2.shape)
            THEN LET c_shape == shape_broadcast(t1.shape, t2.shape) IN
                 /\ out' = zeros(c_shape)
                 /\ grid' = Grid1(ZipBlocks(prod(c_shape)))
                 /\ pending' = grid'
                 /\ host' = "running"
                 /\ calls' = 1
            ELSE /\ host' = "error"
                 /\ UNCHANGED <<out, grid, pending, calls>>
    /\ UNCHANGED <<reduce_dim, reduce_value, wlog, oob, src>>
    /\ LaunchFrame

\* the linear index without the block's offset scaled by blockDim
ZipIndexNoDim(blk, thr) == blk[1] + thr[1]

\* i = cuda.blockIdx.x * cuda.blockDim.x + cuda.threadIdx.x
ZipIndex(blk, thr) == blk[1] * THREADS_PER_BLOCK + thr[1]

ZipGuard(i, out_size) == i < out_size

\* _zip, one thread
ZipThread(thr) ==
    /\ op = "zip"
    /\ host = "running"
    /\ block # NoBlock
    /\ pc[thr] = "run"
    /\ pc' = [pc EXCEPT ![thr] = "exit"]
    /\ LET i == ZipIndex(block, thr) IN
       IF ZipGuard(i, size(out))
       THEN LET out_index == to_index(i, out.shape)
                a_index   == broadcast_index(out_index, out.shape, a.shape)
                b_index   == broadcast_index(out_index, out.shape, b.shape)
            IN \E a_data \in Load(a, index_to_position(a_index, a.strides)) :
               \E b_data \in Load(b, index_to_position(b_index, b.strides)) :
                  StoreOut(thr, index_to_position(out_index, out.strides),
                           apply2(fn, a_data, b_data))
       ELSE UNCHANGED <<out, wlog, oob, host, a>>
    /\ UNCHANGED <<op, fn, b, reduce_dim, reduce_value, both_2d, grid, pending, block,
                   local, cache, a_shared, b_shared, cw, bar, src, calls>>

----------------------------------------------------------------------------
(* CudaOps.reduce *)

\* BLOCK_DIM of _reduce, the literal 1024 of ret
BLOCK_DIM == 2 ^ LogBlockDim

ReduceFns == {<<"add", 0>>, <<"sub", 0>>}

\* the reduction axis: up to a full block and one entry of the next
MaxAxis == BLOCK_DIM + 1

ReduceShapes ==
    {<<n>> : n \in 1..MaxAxis}
        \cup {<<m, n>> : m \in 1..MaxOuter, n \in 1..MaxAxis}
        \cup {<<n, m>> : m \in 1..MaxOuter, n \in 1..MaxAxis}

\* the resized axis as n // 1024 + 1
ReduceOutShapeFloor(shape, dim) ==
    [shape EXCEPT ![dim + 1] = shape[dim + 1] \div BLOCK_DIM + 1]

\* out_shape[dim] = (a.shape[dim] - 1) // 1024 + 1
ReduceOutShape(shape, dim) ==
    [shape EXCEPT ![dim + 1] = (shape[dim + 1] - 1) \div BLOCK_DIM + 1]

\* blockspergrid = out_a.size
ReduceGrid(out_a) == Grid1(size(out_a))

\* the launch made by ret(t, dim)
LaunchReduce(t, dim) ==
    LET out_a == zeros(ReduceOutShape(t.shape, dim)) IN
    /\ a' = t
    /\ reduce_dim' = dim
    /\ out' = out_a
    /\ grid' = ReduceGrid(out_a)
    /\ pending' = grid'
    /\ host' = "running"
    /\ wlog' = {}
    /\ oob' = {}
    /\ calls' = calls + 1

CallReduce ==
    /\ host = "idle"
    /\ \E f \in ReduceFns, t \in Views(ReduceShapes, "pow2") :
         \E dim \in 0..(Len(t.shape) - 1) :
            /\ prod(t.shape) <= MaxSize
            /\ prod(ReduceOutShape(t.shape, dim)) <= MaxBlocks
            /\ op' = "reduce"
            /\ fn' = f[1]
            /\ reduce_value' = f[2]
            /\ src' = t
            /\ LaunchReduce(t, dim)
    /\ UNCHANGED b
    /\ LaunchFrame

\* the caller's loop: reduce the partial result again while the axis is longer than 1
Reinvoke ==
    /\ op = "reduce"
    /\ host = "returned"
    /\ out.shape[reduce_dim + 1] > 1
    /\ LaunchReduce(out, reduce_dim)
    /\ UNCHANGED <<op, fn, b, reduce_value, src>>
    /\ LaunchFrame

\* out_index[reduce_dim] = out_index[reduce_dim] * BLOCK_DIM + pos
SourceIndex(out_index, dim, pos) ==
    [out_index EXCEPT ![dim + 1] = out_index[dim + 1] * BLOCK_DIM + pos]

\* the axis guard off by one
InAxisInclusive(k, dim) == k <= dim

\* if out_index[reduce_dim] < dim
InAxis(k, dim) == k < dim

\* if pos % ((2**idx) * 2) == 0
Combines(pos, idx) == pos % ((2 ^ idx) * 2) = 0

\* the neighbouring slot at every step
PartnerNext(pos, idx) == pos + 1

\* cache[pos + 2**idx]
Partner(pos, idx) == pos + 2 ^ idx

\* the while loop up to the next iteration in which the thread touches the cache
RECURSIVE NextIdx(_, _)
NextIdx(pos, idx) ==
    IF 2 ^ idx < BLOCK_DIM /\ ~Combines(pos, idx) THEN NextIdx(pos, idx + 1) ELSE idx

\* the values a load of cache[slot] can return
LoadCache(slot) ==
    IF slot \in DOMAIN cache /\ cw[slot].by # NoThread THEN {cache[slot]} ELSE Garbage

\* cache[slot] = v by thread thr
StoreCache(thr, slot, v) ==
    /\ cache' = [cache EXCEPT ![slot] = v]
    /\ cw' = [cw EXCEPT ![slot] = [by |-> thr, at |-> Len(bar)]]

\* if pos == 0: the thread that writes the block's result
ReduceAfter(pos) == IF pos = 0 THEN "tail" ELSE "exit"

ReduceRunning(thr, at) ==
    /\ op = "reduce"
    /\ host = "running"
    /\ block # NoBlock
    /\ pc[thr] = at

\* cache[pos] = reduce_value, and the guards down to the staging store
ReduceInit(thr) ==
    /\ ReduceRunning(thr, "init")
    /\ LET pos     == thr[1]
           out_pos == block[1]
       IN /\ StoreCache(thr, pos, reduce_value)
          /\ IF out_pos < size(out)
             THEN LET out_index == SourceIndex(to_index(out_pos, out.shape), reduce_dim, pos)
                      dim       == a.shape[reduce_dim + 1]
                  IN /\ local' = [local EXCEPT ![thr].out_index = out_index]
                     /\ pc' = [pc EXCEPT ![thr] =
                                  IF InAxis(out_index[reduce_dim + 1], dim)
                                  THEN "stage" ELSE ReduceAfter(pos)]
             ELSE /\ local' = local
                  /\ pc' = [pc EXCEPT ![thr] = "exit"]
    /\ UNCHANGED <<op, host, fn, a, b, out, reduce_dim, reduce_value, both_2d, grid, pending,
                   block, a_shared, b_shared, bar, wlog, oob, src, calls>>

\* cache[pos] = a_storage[index_to_position(out_index, a_strides)]; cuda.syncthreads()
ReduceStage(thr) ==
    /\ ReduceRunning(thr, "stage")
    /\ \E v \in Load(a, index_to_position(local[thr].out_index, a.strides)) :
          StoreCache(thr, thr[1], v)
    /\ local' = [local EXCEPT ![thr].idx = 0, ![thr].resume = "loop"]
    /\ pc' = [pc EXCEPT ![thr] = "sync"]
    /\ UNCHANGED <<op, host, fn, a, b, out, reduce_dim, reduce_value, both_2d, grid, pending,
                   block, a_shared, b_shared, bar, wlog, oob, src, calls>>

\* the while loop: on to the next combine of this thread (its first load), or out
ReduceLoop(thr) ==
    /\ ReduceRunning(thr, "loop")
    /\ LET pos == thr[1]
           j   == NextIdx(pos, local[thr].idx)
       IN IF 2 ^ j < BLOCK_DIM
          THEN \E x \in LoadCache(pos) :
                  /\ local' = [local EXCEPT ![thr].idx = j, ![thr].x = x]
                  /\ pc' = [pc EXCEPT ![thr] = "read"]
          ELSE /\ local' = [local EXCEPT ![thr].idx = j]
               /\ pc' = [pc EXCEPT ![thr] = ReduceAfter(pos)]
    /\ UNCHANGED <<op, host, fn, a, b, out, reduce_dim, reduce_value, both_2d, grid, pending,
                   block, cache, a_shared, b_shared, cw, bar, wlog, oob, src, calls>>

\* the load of cache[pos + 2**idx]
ReduceRead(thr) ==
    /\ ReduceRunning(thr, "read")
    /\ \E y \in LoadCache(Partner(thr[1], local[thr].idx)) :
          local' = [local EXCEPT ![thr].y = y]
    /\ pc' = [pc EXCEPT ![thr] = "write"]
    /\ UNCHANGED <<op, host, fn, a, b, out, reduce_dim, reduce_value, both_2d, grid, pending,
                   block, cache, a_shared, b_shared, cw, bar, wlog, oob, src, calls>>

\* cache[pos] = fn(...); cuda.syncthreads(); idx += 1
ReduceWrite(thr) ==
    /\ ReduceRunning(thr, "write")
    /\ StoreCache(thr, thr[1], apply2(fn, local[thr].x, local[thr].y))
    /\ local' = [local EXCEPT ![thr].idx = local[thr].idx + 1, ![thr].resume = "loop"]
    /\ pc' = [pc EXCEPT ![thr] = "sync"]
    /\ UNCHANGED <<op, host, fn, a, b, out, reduce_dim, reduce_value, both_2d, grid, pending,
                   block, a_shared, b_shared, bar, wlog, oob, src, calls>>

\* out[index_to_position(out_index, out_strides)] = cache[0]
ReduceTail(thr) ==
    /\ ReduceRunning(thr, "tail")
    /\ \E v \in LoadCache(0) :
          StoreOut(thr, index_to_position(local[thr].out_index, out.strides), v)
    /\ pc' = [pc EXCEPT ![thr] = "exit"]
    /\ UNCHANGED <<op, fn, b, reduce_dim, reduce_value, both_2d, grid, pending, block,
                   local, cache, a_shared, b_shared, cw, bar, src, calls>>

----------------------------------------------------------------------------
(* CudaOps.matrix_multiply *)

\* BLOCK_DIM of _tensor_matrix_multiply: the tile is one block of threads
TILE_DIM == THREADS_PER_BLOCK

\* a 3D operand seen through permute(0, 2, 1): its last two dimensions not contiguous
BatchedPermuted(bt, rows, cols, kind) ==
    [storage |-> [p \in 0..(bt * rows * cols - 1) |-> Val(kind, p)],
     shape   |-> <<bt, rows, cols>>,
     strides |-> <<rows * cols, 1, rows>>]

\* M, N and K of a call: one element, exactly a tile, a tile and one more
MatExtents == {1, TILE_DIM, TILE_DIM + 1}

\* the first operand of a call: 2D, one batch, or two batches
MatA(rows, cols) ==
    {Contig(<<rows, cols>>, "inc"), Contig(<<1, rows, cols>>, "inc"),
     BatchedPermuted(2, rows, cols, "inc")}

\* the second operand of a call: 2D, one batch, or two batches
MatB(rows, cols) ==
    {Contig(<<rows, cols>>, "tens"), BatchedPermuted(1, rows, cols, "tens"),
     Contig(<<2, rows, cols>>, "tens")}

\* a.contiguous().view(1, a.shape[0], a.shape[1])
View3(t) ==
    IF Len(t.shape) = 2
    THEN [storage |-> t.storage,
          shape   |-> <<1, t.shape[1], t.shape[2]>>,
          strides |-> strides_from_shape(<<1, t.shape[1], t.shape[2]>>)]
    ELSE t

\* ls: the shape of out
MatOutShape(a3, b3) ==
    shape_broadcast(SubSeq(a3.shape, 1, 1), SubSeq(b3.shape, 1, 1))
        \o <<a3.shape[2], b3.shape[3]>>

\* blockspergrid of matrix_multiply
MatGrid(o) ==
    {<<x, y, z>> : x \in 0..((o.shape[2] + (THREADS_PER_BLOCK - 1)) \div THREADS_PER_BLOCK - 1),
                   y \in 0..((o.shape[3] + (THREADS_PER_BLOCK - 1)) \div THREADS_PER_BLOCK - 1),
                   z \in 0..(o.shape[1] - 1)}

\* the flag set as soon as one operand is 2D
Either2D(t1, t2) == Len(t1.shape) = 2 \/ Len(t2.shape) = 2

\* both_2d = both_2d == 2: one count for every operand that was 2D
Both2D(t1, t2) == Len(t1.shape) = 2 /\ Len(t2.shape) = 2

\* the dimension check left out
MatDimsUnchecked(a3, b3) == TRUE

\* assert a.shape[-1] == b.shape[-2]
MatDimsAgree(a3, b3) == a3.shape[3] = b3.shape[2]

CallMatmul ==
    /\ host = "idle"
    /\ \E m \in MatExtents, n \in MatExtents, k1 \in MatExtents, k2 \in MatExtents :
       \E t1 \in MatA(m, k1), t2 \in MatB(k2, n) :
         LET a3 == View3(t1)
             b3 == View3(t2)
         IN /\ op' = "matmul"
            /\ fn' = "mul"
            /\ a' = a3
            /\ b' = b3
            /\ both_2d' = Both2D(t1, t2)
            /\ src' = [a |-> t1, b |-> t2]
            /\ IF /\ broadcastable(SubSeq(a3.shape, 1, 1), SubSeq(b3.shape, 1, 1))
                  /\ MatDimsAgree(a3, b3)
               THEN LET o == zeros(MatOutShape(a3, b3)) IN
                    /\ Cardinality(MatGrid(o)) <= MaxGrid
                    /\ out' = o
                    /\ grid' = MatGrid(o)
                    /\ pending' = grid'
                    /\ host' = "running"
                    /\ calls' = 1
               ELSE /\ host' = "error"
                    /\ UNCHANGED <<out, grid, pending, calls>>
    /\ UNCHANGED <<reduce_dim, reduce_value, wlog, oob,
                   block, pc, local, cache, a_shared, b_shared, cw, bar>>

\* the batch stride of an operand, not zeroed for a batch of one
batch_stride_raw(t) == t.strides[1]

\* a_batch_stride = a_strides[0] if a_shape[0] > 1 else 0
batch_stride(t) == IF t.shape[1] > 1 THEN t.strides[1] ELSE 0

\* i and j of a thread
RowOf(blk, thr) == blk[1] * THREADS_PER_BLOCK + thr[1]
ColOf(blk, thr) == blk[2] * THREADS_PER_BLOCK + thr[2]

\* the tile element of a this thread stages
TileA(thr, idx) ==
    LET i  == RowOf(block, thr)
        pj == thr[2]
    IN IF i < a.shape[2] /\ (idx + pj) < a.shape[3]
       THEN Load(a, batch_stride(a) * block[3] + a.strides[2] * i + a.strides[3] * (idx + pj))
       ELSE {0}

\* the tile element of b, its row taken from the thread's column
TileBByColumn(thr, idx) ==
    LET j  == ColOf(block, thr)
        pj == thr[2]
    IN IF j < b.shape[3] /\ (idx + pj) < b.shape[2]
       THEN Load(b, batch_stride(b) * block[3] + b.strides[2] * (idx + pj) + b.strides[3] * j)
       ELSE {0}

\* the tile element of b this thread stages
TileB(thr, idx) ==
    LET j  == ColOf(block, thr)
        pi == thr[1]
    IN IF j < b.shape[3] /\ (idx + pi) < b.shape[2]
       THEN Load(b, batch_stride(b) * block[3] + b.strides[2] * (idx + pi) + b.strides[3] * j)
       ELSE {0}

MatRunning(thr, at) ==
    /\ op = "matmul"
    /\ host = "running"
    /\ block # NoBlock
    /\ pc[thr] = at

\* for idx in range(0, a_shape[2], BLOCK_DIM): a chunk starts at idx
MoreChunks(idx) == idx < a.shape[3]

\* the two tile stores of one chunk and the barrier after them
MatLoad(thr) ==
    /\ MatRunning(thr, "load")
    /\ \E va \in TileA(thr, local[thr].idx) : a_shared' = [a_shared EXCEPT ![thr] = va]
    /\ \E vb \in TileB(thr, local[thr].idx) : b_shared' = [b_shared EXCEPT ![thr] = vb]
    /\ local' = [local EXCEPT ![thr].loads = local[thr].loads + 1, ![thr].resume = "acc"]
    /\ pc' = [pc EXCEPT ![thr] = "sync"]
    /\ UNCHANGED <<op, host, fn, a, b, out, reduce_dim, reduce_value, both_2d, grid, pending,
                   block, cache, cw, bar, wlog, oob, src, calls>>

\* the slots of the tiles a thread reads at step k have been stored for its chunk
Staged(thr, k) ==
    /\ local[<<thr[1], k, 0>>].loads = local[thr].loads
    /\ local[<<k, thr[2], 0>>].loads = local[thr].loads

\* for k in range(BLOCK_DIM): if (idx + k) < a_shape[2]: accum += ...
RECURSIVE DotTile(_, _, _)
DotTile(thr, idx, k) ==
    IF k = 0 THEN 0
    ELSE DotTile(thr, idx, k - 1)
           + (IF (idx + (k - 1)) < a.shape[3]
              THEN a_shared[<<thr[1], k - 1, 0>>] * b_shared[<<k - 1, thr[2], 0>>]
              ELSE 0)

\* no barrier after the accumulation
AfterAccNoBarrier == "next"

\* where a thread goes after the accumulation of a chunk: the second cuda.syncthreads()
AfterAcc == "sync"

\* the accumulation over one chunk and the barrier after it
MatAcc(thr) ==
    /\ MatRunning(thr, "acc")
    /\ LET idx  == local[thr].idx
           next == IF MoreChunks(idx + TILE_DIM) THEN "load" ELSE "store"
       IN \E acc \in IF \A k \in 0..(TILE_DIM - 1) : Staged(thr, k)
                     THEN {local[thr].accum + DotTile(thr, idx, TILE_DIM)}
                     ELSE {local[thr].accum + g : g \in Garbage} :
             /\ local' = [local EXCEPT ![thr].accum = acc,
                                       ![thr].idx = idx + TILE_DIM,
                                       ![thr].reads = local[thr].reads + 1,
                                       ![thr].resume = next]
             /\ pc' = [pc EXCEPT ![thr] = IF AfterAcc = "sync" THEN "sync" ELSE next]
    /\ UNCHANGED <<op, host, fn, a, b, out, reduce_dim, reduce_value, both_2d, grid, pending,
                   block, cache, a_shared, b_shared, cw, bar, wlog, oob, src, calls>>

\* the guard of the store without the row bound
MatGuardNoRow(batch, i, j) == batch < out.shape[1] /\ j < out.shape[3]

\* batch < out_shape[0] and i < out_shape[1] and j < out_shape[2]
MatGuard(batch, i, j) == batch < out.shape[1] /\ i < out.shape[2] /\ j < out.shape[3]

\* threads outside the output matrix leaving before the loop
MatEntryGuarded(thr) ==
    IF MoreChunks(0) /\ MatGuard(block'[3], RowOf(block', thr), ColOf(block', thr))
    THEN "load" ELSE "store"

\* where a thread of a matmul block starts: every thread enters the loop over the chunks
MatEntry(thr) == IF MoreChunks(0) THEN "load" ELSE "store"

\* the store of accum to out
MatStore(thr) ==
    /\ MatRunning(thr, "store")
    /\ pc' = [pc EXCEPT ![thr] = "exit"]
    /\ LET batch == block[3]
           i     == RowOf(block, thr)
           j     == ColOf(block, thr)
       IN IF MatGuard(batch, i, j)
          THEN StoreOut(thr, out.strides[1] * batch + out.strides[2] * i + out.strides[3] * j,
                        local[thr].accum)
          ELSE UNCHANGED <<out, wlog, oob, host, a>>
    /\ UNCHANGED <<op, fn, b, reduce_dim, reduce_value, both_2d, grid, pending, block,
                   local, cache, a_shared, b_shared, cw, bar, src, calls>>

----------------------------------------------------------------------------
(* sum_practice *)

\* BLOCK_DIM of _sum_practice and the THREADS_PER_BLOCK sum_practice launches it with:
\* the same power of two
PRACTICE_DIM == 2 ^ LogPracticeDim

\* the input lengths: up to two full blocks and one entry of a third
MaxPractice == 2 * PRACTICE_DIM + 1

\* out = TensorData([0.0 for i in range(2)], (2,))
PracticeOut == zeros(<<2>>)

\* blockspergrid = (size // THREADS_PER_BLOCK) + 1
PracticeBlocks(n) == (n \div PRACTICE_DIM) + 1

CallPractice ==
    /\ host = "idle"
    /\ \E n \in 1..MaxPractice :
         /\ a' = Contig(<<n>>, "pow2")
         /\ src' = Contig(<<n>>, "pow2")
         /\ grid' = Grid1(PracticeBlocks(n))
    /\ op' = "practice"
    /\ fn' = "add"
    /\ out' = PracticeOut
    /\ pending' = grid'
    /\ host' = "running"
    /\ calls' = 1
    /\ UNCHANGED <<b, reduce_dim, reduce_value, wlog, oob>>
    /\ LaunchFrame

\* i = cuda.blockIdx.x * cuda.blockDim.x + cuda.threadIdx.x
PracticeIndex(blk, thr) == blk[1] * PRACTICE_DIM + thr[1]

\* if i < size
PracticeGuard(i, n) == i < n

\* for stride in [1, 2, 4, 8, 16]: the strides are 2**idx for idx below log2(BLOCK_DIM)
PracticeStride(idx) == 2 ^ idx

PracticeRunning(thr, at) ==
    /\ op = "practice"
    /\ host = "running"
    /\ block # NoBlock
    /\ pc[thr] = at

\* the staging: cache[pos] = a[i] and the barrier, or cache[pos] = 0.0 and out
PracticeInit(thr) ==
    /\ PracticeRunning(thr, "pinit")
    /\ LET i == PracticeIndex(block, thr) IN
       IF PracticeGuard(i, size(a))
       THEN /\ \E v \in Load(a, i) : StoreCache(thr, thr[1], v)
            /\ local' = [local EXCEPT ![thr].idx = 0, ![thr].resume = "ploop"]
            /\ pc' = [pc EXCEPT ![thr] = "sync"]
       ELSE /\ StoreCache(thr, thr[1], 0)
            /\ local' = local
            /\ pc' = [pc EXCEPT ![thr] = "exit"]
    /\ UNCHANGED <<op, host, fn, a, b, out, reduce_dim, reduce_value, both_2d, grid, pending,
                   block, a_shared, b_shared, bar, wlog, oob, src, calls>>

\* one iteration of the loop over the strides: the load of cache[pos + stride] of a
\* combining thread, or the barrier of a thread that does not combine; after the
\* last stride, on to the store of thread 0
PracticeLoop(thr) ==
    /\ PracticeRunning(thr, "ploop")
    /\ LET pos == thr[1]
           idx == local[thr].idx
       IN IF idx >= LogPracticeDim
          THEN /\ pc' = [pc EXCEPT ![thr] = IF pos = 0 THEN "ptail" ELSE "exit"]
               /\ local' = local
          ELSE IF pos % (2 * PracticeStride(idx)) = 0
               THEN \E y \in LoadCache(pos + PracticeStride(idx)) :
                       /\ local' = [local EXCEPT ![thr].y = y]
                       /\ pc' = [pc EXCEPT ![thr] = "pwrite"]
               ELSE /\ local' = [local EXCEPT ![thr].idx = idx + 1, ![thr].resume = "ploop"]
                    /\ pc' = [pc EXCEPT ![thr] = "sync"]
    /\ UNCHANGED <<op, host, fn, a, b, out, reduce_dim, reduce_value, both_2d, grid, pending,
                   block, cache, a_shared, b_shared, cw, bar, wlog, oob, src, calls>>

\* cache[pos] += cache[pos + stride]; cuda.syncthreads()
PracticeWrite(thr) ==
    /\ PracticeRunning(thr, "pwrite")
    /\ \E x \in LoadCache(thr[1]) : StoreCache(thr, thr[1], x + local[thr].y)
    /\ local' = [local EXCEPT ![thr].idx = local[thr].idx + 1, ![thr].resume = "ploop"]
    /\ pc' = [pc EXCEPT ![thr] = "sync"]
    /\ UNCHANGED <<op, host, fn, a, b, out, reduce_dim, reduce_value, both_2d, grid, pending,
                   block, a_shared, b_shared, bar, wlog, oob, src, calls>>

\* out[cuda.blockIdx.x] = cache[0]
PracticeTail(thr) ==
    /\ PracticeRunning(thr, "ptail")
    /\ \E v \in LoadCache(0) : StoreOut(thr, block[1], v)
    /\ pc' = [pc EXCEPT ![thr] = "exit"]
    /\ UNCHANGED <<op, fn, b, reduce_dim, reduce_value, both_2d, grid, pending, block,
                   local, cache, a_shared, b_shared, cw, bar, src, calls>>

----------------------------------------------------------------------------
(* The grid: blocks, threads and the barrier *)

\* the length of the block's shared array
CacheDim == IF op = "practice" THEN PRACTICE_DIM ELSE BLOCK_DIM

Threads ==
    CASE op = "reduce" -> {<<x, 0, 0>> : x \in 0..(BLOCK_DIM - 1)}
      [] op = "practice" -> {<<x, 0, 0>> : x \in 0..(PRACTICE_DIM - 1)}
      [] op = "matmul" -> {<<x, y, 0>> : x \in 0..(THREADS_PER_BLOCK - 1),
                                         y \in 0..(THREADS_PER_BLOCK - 1)}
      [] OTHER         -> {<<x, 0, 0>> : x \in 0..(THREADS_PER_BLOCK - 1)}

Entry(thr) ==
    CASE op = "reduce" -> "init"
      [] op = "matmul" -> MatEntry(thr)
      [] op = "practice" -> "pinit"
      [] OTHER         -> "run"

Locals ==
    CASE op = "reduce" -> [out_index |-> <<>>, idx |-> 0, x |-> 0, y |-> 0, resume |-> "loop"]
      [] op = "matmul" -> [accum |-> 0, idx |-> 0, loads |-> 0, reads |-> 0, resume |-> "acc"]
      [] op = "practice" -> [idx |-> 0, y |-> 0, resume |-> "ploop"]
      [] OTHER         -> [resume |-> "exit"]

\* a block of the grid becomes resident
Dispatch ==
    /\ host = "running"
    /\ block = NoBlock
    /\ \E blk \in pending :
         /\ block' = blk
         /\ pending' = pending \ {blk}
    /\ pc' = [t \in Threads |-> Entry(t)]
    /\ local' = [t \in Threads |-> Locals]
    /\ cache' = IF op \in {"reduce", "practice"} THEN [s \in 0..(CacheDim - 1) |-> 0] ELSE <<>>
    /\ cw' = IF op \in {"reduce", "practice"}
             THEN [s \in 0..(CacheDim - 1) |-> [by |-> NoThread, at |-> 0]] ELSE <<>>
    /\ a_shared' = IF op = "matmul" THEN [t \in Threads |-> 0] ELSE <<>>
    /\ b_shared' = IF op = "matmul" THEN [t \in Threads |-> 0] ELSE <<>>
    /\ bar' = <<>>
    /\ UNCHANGED <<op, host, fn, a, b, out, reduce_dim, reduce_value, both_2d, grid,
                   wlog, oob, src, calls>>

\* cuda.syncthreads(): every thread that has not exited is waiting
Barrier ==
    /\ host = "running"
    /\ block # NoBlock
    /\ LET waiting == {t \in DOMAIN pc : pc[t] = "sync"} IN
       /\ waiting # {}
       /\ \A t \in DOMAIN pc : pc[t] \in {"sync", "exit"}
       /\ pc' = [t \in DOMAIN pc |-> IF t \in waiting THEN local[t].resume ELSE pc[t]]
       /\ bar' = Append(bar, waiting)
    /\ UNCHANGED <<op, host, fn, a, b, out, reduce_dim, reduce_value, both_2d, grid, pending,
                   block, local, cache, a_shared, b_shared, cw, wlog, oob, src, calls>>

\* every thread of the resident block has exited
Retire ==
    /\ host = "running"
    /\ block # NoBlock
    /\ \A t \in DOMAIN pc : pc[t] = "exit"
    /\ block' = NoBlock
    /\ pc' = <<>>
    /\ local' = <<>>
    /\ cache' = <<>>
    /\ a_shared' = <<>>
    /\ b_shared' = <<>>
    /\ cw' = <<>>
    /\ bar' = <<>>
    /\ UNCHANGED <<op, host, fn, a, b, out, reduce_dim, reduce_value, both_2d, grid, pending,
                   wlog, oob, src, calls>>

\* the launch is over: ret returns out
Return ==
    /\ host = "running"
    /\ block = NoBlock
    /\ pending = {}
    /\ host' = "returned"
    /\ out' = IF op = "matmul" /\ both_2d
              THEN [out EXCEPT !.shape = <<out.shape[2], out.shape[3]>>,
                               !.strides = strides_from_shape(<<out.shape[2], out.shape[3]>>)]
              ELSE out
    /\ UNCHANGED <<op, fn, a, b, reduce_dim, reduce_value, both_2d, grid, pending, block,
                   pc, local, cache, a_shared, b_shared, cw, bar, wlog, oob, src, calls>>

GridNext == Dispatch \/ Retire \/ Return

NextMap == CallMap \/ (\E thr \in DOMAIN pc : MapThread(thr)) \/ GridNext

NextZip == CallZip \/ (\E thr \in DOMAIN pc : ZipThread(thr)) \/ GridNext

MatThread(thr) == MatLoad(thr) \/ MatAcc(thr) \/ MatStore(thr)

NextMatmul == CallMatmul \/ (\E thr \in DOMAIN pc : MatThread(thr)) \/ Barrier \/ GridNext

ReduceThread(thr) ==
    \/ ReduceInit(thr)
    \/ ReduceStage(thr)
    \/ ReduceLoop(thr)
    \/ ReduceRead(thr)
    \/ ReduceWrite(thr)
    \/ ReduceTail(thr)

NextReduce ==
    CallReduce \/ Reinvoke \/ (\E thr \in DOMAIN pc : ReduceThread(thr)) \/ Barrier \/ GridNext

SpecMap == Init /\ [][NextMap]_vars

SpecZip == Init /\ [][NextZip]_vars

SpecReduce == Init /\ [][NextReduce]_vars

SpecMatmul == Init /\ [][NextMatmul]_vars

\* the device runs every thread of a resident block until it exits, the grid until it
\* is empty, and the caller goes on once a launch has returned
SpecReduceFair == SpecReduce /\ WF_vars(NextReduce)

SpecMatmulFair == SpecMatmul /\ WF_vars(NextMatmul)

PracticeThread(thr) ==
    PracticeInit(thr) \/ PracticeLoop(thr) \/ PracticeWrite(thr) \/ PracticeTail(thr)

NextPractice ==
    CallPractice \/ (\E thr \in DOMAIN pc : PracticeThread(thr)) \/ Barrier \/ GridNext

SpecPractice == Init /\ [][NextPractice]_vars

\* the two elementwise kernels
NextMapZip == NextMap \/ NextZip

SpecMapZip == Init /\ [][NextMapZip]_vars

\* the three kernels in which every thread owns one output element
NextElementwise == NextMap \/ NextZip \/ NextMatmul

SpecElementwise == Init /\ [][NextElementwise]_vars

Next == NextMap \/ NextZip \/ NextReduce \/ NextMatmul \/ NextPractice

Spec == Init /\ [][Next]_vars

----------------------------------------------------------------------------
(* Properties *)

\* the sum of view t along axis dim (0-based) over lo .. hi, the other coordinates as in c
RECURSIVE AxisSum(_, _, _, _, _)
AxisSum(t, c, dim, lo, hi) ==
    IF hi < lo THEN 0
    ELSE At(t, [c EXCEPT ![dim + 1] = hi]) + AxisSum(t, c, dim, lo, hi - 1)

Min(x, y) == IF x <= y THEN x ELSE y

\* the least q with q * d >= n
Ceil(n, d) == CHOOSE q \in 0..n : q * d >= n /\ (q - 1) * d < n

AddFromZero == op = "reduce" /\ fn = "add" /\ reduce_value = 0

\* C1: with fn = add and identity 0, one reduce call over an axis longer than BLOCK_DIM
\* leaves at output entry k the sum of the input entries k*BLOCK_DIM up to
\* min(n, (k+1)*BLOCK_DIM) - 1, and re-invoking reduce on the partial result until
\* the axis has length 1 leaves the sum of all n entries.
C1_MultiChunkSum ==
    (AddFromZero /\ host = "returned" /\ src.shape[reduce_dim + 1] > BLOCK_DIM) =>
        /\ calls = 1 =>
             /\ out.shape[reduce_dim + 1] = Ceil(a.shape[reduce_dim + 1], BLOCK_DIM)
             /\ \A c \in Coords(out.shape) :
                   At(out, c) = AxisSum(a, c, reduce_dim, c[reduce_dim + 1] * BLOCK_DIM,
                                        Min(a.shape[reduce_dim + 1],
                                            (c[reduce_dim + 1] + 1) * BLOCK_DIM) - 1)
        /\ out.shape[reduce_dim + 1] = 1 =>
             \A c \in Coords(out.shape) :
                At(out, c) = AxisSum(src, c, reduce_dim, 0, src.shape[reduce_dim + 1] - 1)

\* C2: with fn = add and identity 0, a reduce launch over an axis of 1 .. BLOCK_DIM
\* entries ends, under every interleaving of its threads, with every output position
\* holding the sum of the input along the axis.
C2_SingleChunkSum ==
    (AddFromZero /\ a.shape[reduce_dim + 1] <= BLOCK_DIM) =>
        /\ host # "fault"
        /\ host = "returned" =>
             \A c \in Coords(out.shape) :
                At(out, c) = AxisSum(a, c, reduce_dim, 0, a.shape[reduce_dim + 1] - 1)

\* an axis that is neither a power of two nor a full block, reduced to its sums
C2_Witness ==
    /\ AddFromZero
    /\ host = "returned"
    /\ calls = 1
    /\ a.shape = <<2, 3>>
    /\ reduce_dim = 1
    /\ a.strides = <<3, 1>>
    /\ out.storage = (0 :> 7) @@ (1 :> 56)

\* C8: a thread that reads cache[pos + step], last written by another thread, is
\* separated from that write by a barrier in which both the writer and the reader
\* took part.
C8_BarrierSeparates ==
    (op = "reduce" /\ block # NoBlock) =>
        \A thr \in DOMAIN pc :
            pc[thr] = "read" =>
                LET w == cw[Partner(thr[1], local[thr].idx)] IN
                w.by # thr =>
                    /\ w.by # NoThread
                    /\ \E g \in (w.at + 1)..Len(bar) : {w.by, thr} \subseteq bar[g]

\* C10: the output of reduce has the shape of the input with the reduction axis
\* resized to ceil(n / BLOCK_DIM), and the launch has one block per output position.
C10_OutShape ==
    (op = "reduce" /\ host \in {"running", "returned", "fault"}) =>
        /\ Len(out.shape) = Len(a.shape)
        /\ \A d \in 1..Len(a.shape) :
              out.shape[d] = IF d = reduce_dim + 1 THEN Ceil(a.shape[d], BLOCK_DIM)
                             ELSE a.shape[d]
        /\ {blk[1] : blk \in grid} = 0..(size(out) - 1)
        /\ Cardinality(grid) = size(out)

\* a reduction axis longer than one block, resized to two chunks
C10_Witness ==
    /\ op = "reduce"
    /\ host = "returned"
    /\ a.shape = <<2, BLOCK_DIM + 1>>
    /\ reduce_dim = 1
    /\ out.shape = <<2, 2>>
    /\ Cardinality(grid) = 4

\* shape small broadcasts to shape big
BroadcastsTo(small, big) ==
    /\ Len(small) <= Len(big)
    /\ broadcastable(small, big)
    /\ shape_broadcast(small, big) = big

\* C5: after a map launch whose input broadcasts to the output, every coordinate c of
\* the output holds fn(in[broadcast_index(c, out_shape, in_shape)]), the input read
\* through its own strides and the output written through its own.
C5_Map ==
    (op = "map" /\ host = "returned" /\ BroadcastsTo(a.shape, out.shape)) =>
        \A c \in Coords(out.shape) :
            At(out, c) = apply1(fn, At(a, broadcast_index(c, out.shape, a.shape)))

\* shape (3,), input [1, 2, 3], fn = square: output [1, 4, 9]
C5_Witness ==
    /\ op = "map"
    /\ host = "returned"
    /\ fn = "square"
    /\ a.shape = <<3>>
    /\ a.storage = (0 :> 1) @@ (1 :> 2) @@ (2 :> 3)
    /\ out.shape = <<3>>
    /\ out.storage = (0 :> 1) @@ (1 :> 4) @@ (2 :> 9)

\* C6: zip of broadcast-compatible a and b returns an output of the broadcast shape
\* in which every coordinate c holds fn(a[broadcast_index(c, out_shape, a_shape)],
\* b[broadcast_index(c, out_shape, b_shape)]).
C6_Zip ==
    (op = "zip" /\ host = "returned") =>
        /\ out.shape = shape_broadcast(a.shape, b.shape)
        /\ \A c \in Coords(out.shape) :
              At(out, c) = apply2(fn, At(a, broadcast_index(c, out.shape, a.shape)),
                                      At(b, broadcast_index(c, out.shape, b.shape)))

\* a of shape (3,1), b of shape (1,3), fn = add: out[i,j] = a[i,0] + b[0,j]
C6_Witness ==
    /\ op = "zip"
    /\ host = "returned"
    /\ fn = "add"
    /\ a.shape = <<3, 1>>
    /\ b.shape = <<1, 3>>
    /\ out.shape = <<3, 3>>
    /\ \A i \in 0..2, j \in 0..2 :
          out.storage[3 * i + j] = a.storage[i] + b.storage[j]
    /\ out.storage[5] = 32

\* the stores made to output slot p
WritesTo(p) == {w \in wlog : w.slot = p}

\* C7: in a launch of map, zip or matmul with a contiguous output no output slot is
\* written by two different threads, every thread stores at most once, and at the end
\* of the launch every slot of 0 .. out.size-1 has been written exactly once.
C7_DisjointWrites ==
    (op \in {"map", "zip", "matmul"} /\ out.strides = strides_from_shape(out.shape)) =>
        /\ \A w1 \in wlog, w2 \in wlog :
              w1.slot = w2.slot => (w1.blk = w2.blk /\ w1.thr = w2.thr)
        /\ \A w \in wlog : w.k = 1
        /\ host = "returned" =>
              /\ \A p \in 0..(size(out) - 1) : Cardinality(WritesTo(p)) = 1
              /\ \A w \in wlog : w.slot \in 0..(size(out) - 1)

\* a matmul over a full and a partial tile, every one of its six slots written
C7_Witness ==
    /\ op = "matmul"
    /\ host = "returned"
    /\ out.shape = <<1, TILE_DIM + 1, 2>>
    /\ Cardinality(wlog) = 2 * (TILE_DIM + 1)
    /\ Cardinality(grid) = 2

\* the sum over k of a[ba, i, k] * b[bb, k, j] for k = 0 .. n-1
RECURSIVE MatSum(_, _, _, _, _)
MatSum(ba, bb, i, j, n) ==
    IF n = 0 THEN 0
    ELSE At(a, <<ba, i, n - 1>>) * At(b, <<bb, n - 1, j>>) + MatSum(ba, bb, i, j, n - 1)

\* out[bt, i, j] of the tensor matrix_multiply returns
OutElem(bt, i, j) == At(out, IF Len(out.shape) = 2 THEN <<i, j>> ELSE <<bt, i, j>>)

\* C3: for a of shape (B,M,K) and b of shape (B,K,N), after the launch out[b,i,j] is
\* the sum over k < K of a[b,i,k] * b[b,k,j], also when M, N, K are no multiples of
\* the tile size and K spans several tiles.
C3_Matmul ==
    (op = "matmul" /\ host = "returned" /\ a.shape[1] = b.shape[1]) =>
        /\ out.shape = IF both_2d THEN <<a.shape[2], b.shape[3]>>
                       ELSE <<a.shape[1], a.shape[2], b.shape[3]>>
        /\ \A bt \in 0..(a.shape[1] - 1), i \in 0..(a.shape[2] - 1), j \in 0..(b.shape[3] - 1) :
              OutElem(bt, i, j) = MatSum(bt, bt, i, j, a.shape[3])

\* M and K one more than the tile: zero-padded tiles in the rows and along K
C3_Witness ==
    /\ op = "matmul"
    /\ host = "returned"
    /\ a.shape = <<1, TILE_DIM + 1, TILE_DIM + 1>>
    /\ b.shape = <<1, TILE_DIM + 1, 1>>
    /\ OutElem(0, TILE_DIM, 0) = MatSum(0, 0, TILE_DIM, 0, TILE_DIM + 1)
    /\ OutElem(0, TILE_DIM, 0) > 0

\* C4: when one operand has batch size 1 and the other batch size B > 1, the output
\* has B batches and batch bt of it is computed from the single batch of the one
\* operand and batch bt of the other.
C4_BatchBroadcast ==
    (op = "matmul" /\ host = "returned" /\ a.shape[1] # b.shape[1]) =>
        /\ out.shape[1] = Max(a.shape[1], b.shape[1])
        /\ \A bt \in 0..(out.shape[1] - 1), i \in 0..(a.shape[2] - 1),
              j \in 0..(b.shape[3] - 1) :
              At(out, <<bt, i, j>>) =
                  MatSum(IF a.shape[1] = 1 THEN 0 ELSE bt,
                         IF b.shape[1] = 1 THEN 0 ELSE bt, i, j, a.shape[3])

\* a of one batch against b of two: both output batches come from a's only batch
C4_Witness ==
    /\ op = "matmul"
    /\ host = "returned"
    /\ a.shape[1] = 1
    /\ b.shape[1] = 2
    /\ a.shape[2] = 2
    /\ out.shape[1] = 2
    /\ At(out, <<1, 1, 0>>) = MatSum(0, 1, 1, 0, a.shape[3])
    /\ At(out, <<1, 1, 0>>) # At(out, <<0, 1, 0>>)

\* C9: no thread reads the shared tiles of a chunk before every thread of the block
\* has stored its tile elements of that chunk, and no thread stores tile elements of
\* the next chunk while a thread of the block has not finished reading the current one.
C9_TileDiscipline ==
    (op = "matmul" /\ block # NoBlock) =>
        \A t \in DOMAIN pc, u \in DOMAIN pc :
            /\ pc[t] = "acc" => local[u].loads >= local[t].reads + 1
            /\ local[u].loads <= local[t].reads + 1

\* a thread about to read the tiles of the second chunk
C9_Witness ==
    /\ op = "matmul"
    /\ block # NoBlock
    /\ \E t \in DOMAIN pc : pc[t] = "acc" /\ local[t].reads = 1 /\ local[t].loads = 2

\* the extent of the reduction axis of view t
Axis(t) == t.shape[reduce_dim + 1]

\* a launch of reduce by the caller's loop: the first call or a re-invocation
ReduceLaunch == op' = "reduce" /\ calls' # calls

C12_DimCheckFailsFast ==
    (op = "matmul" /\ a.shape[3] # b.shape[2]) =>
        /\ host = "error"
        /\ calls = 0
        /\ grid = {} /\ pending = {} /\ block = NoBlock
        /\ pc = <<>>
        /\ out = NoTensor
        /\ wlog = {} /\ oob = {}

\* a of shape (1, 2, 2) against b of shape (1, 1, 2): the batches agree, K does not
C12_Witness ==
    /\ op = "matmul"
    /\ host = "error"
    /\ a.shape = <<1, TILE_DIM, TILE_DIM>>
    /\ b.shape = <<1, 1, TILE_DIM>>

\* C13: whenever a map or zip kernel has been launched, the shape of every input
\* broadcasts to the shape of the output; this includes map called with an out tensor
\* of the caller.
C13_CompatBeforeLaunch ==
    (op \in {"map", "zip"} /\ host \in {"running", "returned", "fault"}) =>
        /\ BroadcastsTo(a.shape, out.shape)
        /\ op = "zip" => BroadcastsTo(b.shape, out.shape)

\* the shapes of rank 1 to 3 with extents up to MaxDim
RoundTripShapes ==
    Shapes(MaxDim) \cup {<<x, y, z>> : x \in 1..MaxDim, y \in 1..MaxDim, z \in 1..MaxDim}

RoundTrip ==
    \A S \in RoundTripShapes :
        \A i \in 0..(prod(S) - 1) :
            index_to_position(to_index(i, S), strides_from_shape(S)) = i

\* C14: index_to_position(to_index(i, S), strides_from_shape(S)) = i for every shape S
\* and every position i below its size, and in a map or zip launch with a contiguous
\* output the thread of linear index i stores to output slot i.
C14_RoundTrip ==
    /\ RoundTrip
    /\ (op \in {"map", "zip"} /\ out.strides = strides_from_shape(out.shape)) =>
           \A w \in wlog : w.slot = w.blk[1] * THREADS_PER_BLOCK + w.thr[1]

\* a map over an output of shape (2, 3): the thread of linear index 5 wrote slot 5
C14_Witness ==
    /\ op = "map"
    /\ host = "returned"
    /\ out.shape = <<2, 3>>
    /\ Cardinality(wlog) = 6
    /\ \E w \in wlog : w.blk[1] * THREADS_PER_BLOCK + w.thr[1] = 5 /\ w.slot = 5

\* the value slot p of the cache of block blk holds after staging: the input entry of
\* the block's chunk, or the start value past the end of the axis
StagedValue(blk, p) ==
    LET index == SourceIndex(to_index(blk[1], out.shape), reduce_dim, p) IN
    IF InAxis(index[reduce_dim + 1], Axis(a)) THEN At(a, index) ELSE reduce_value

\* the balanced binary tree over the n staged values from slot lo on
RECURSIVE TreeCombine(_, _, _)
TreeCombine(blk, lo, n) ==
    IF n = 1 THEN StagedValue(blk, lo)
    ELSE apply2(fn, TreeCombine(blk, lo, n \div 2), TreeCombine(blk, lo + n \div 2, n \div 2))

\* the staged values combined from left to right
RECURSIVE LeftFold(_, _)
LeftFold(blk, n) ==
    IF n = 1 THEN StagedValue(blk, 0)
    ELSE apply2(fn, LeftFold(blk, n - 1), StagedValue(blk, n - 1))

\* thread 0 of the resident block is about to store the block's result
AtTail == op = "reduce" /\ block # NoBlock /\ pc[<<0, 0, 0>>] = "tail"

\* C15: for every fn and every interleaving, the value thread 0 of a block stores is
\* the balanced binary-tree combination of the block's BLOCK_DIM staged values, the
\* slots past the end of the axis holding the start value.
C15_TreeOrder ==
    AtTail =>
        /\ cw[0].by # NoThread
        /\ cache[0] = TreeCombine(block, 0, BLOCK_DIM)

\* subtraction over a full block: the tree value differs from the left-to-right one
C15_Witness ==
    /\ AtTail
    /\ fn = "sub"
    /\ Axis(a) = BLOCK_DIM
    /\ cache[0] = TreeCombine(block, 0, BLOCK_DIM)
    /\ cache[0] # LeftFold(block, BLOCK_DIM)

\* C16: every barrier a reduce block releases is one at which the whole block has
\* arrived, and a block whose threads have all exited has gone through the staging
\* barrier and one barrier per tree step, with the store of thread 0 made.
C16_WholeBlockBarriers ==
    (op = "reduce" /\ block # NoBlock) =>
        /\ \A g \in 1..Len(bar) : bar[g] = DOMAIN pc
        /\ (\A t \in DOMAIN pc : pc[t] = "exit") =>
               /\ Len(bar) = 1 + LogBlockDim
               /\ \E w \in wlog : w.blk = block /\ w.thr = <<0, 0, 0>>

\* C17: in a reduce launch every store to the output is the one store of thread 0 of
\* its block, it goes to the storage position of the block's own output coordinate
\* under the output strides, inside the output storage, and two blocks never store to
\* the same slot.
C17_WriteLocation ==
    op = "reduce" =>
        /\ \A w \in wlog :
              /\ w.thr = <<0, 0, 0>>
              /\ w.k = 1
              /\ w.slot = index_to_position(to_index(w.blk[1], out.shape), out.strides)
              /\ w.slot \in 0..(size(out) - 1)
        /\ \A w1 \in wlog, w2 \in wlog : w1.blk # w2.blk => w1.slot # w2.slot

\* the linear index of the thread that made store w in a map or zip launch
LinearIndex(w) == w.blk[1] * THREADS_PER_BLOCK + w.thr[1]

\* map and zip: enough threads for the output, stores only by threads below out.size,
\* one store each, to the slot of the thread's own output coordinate
GuardedStores ==
    (op \in {"map", "zip"} /\ host \in {"running", "returned"}) =>
        /\ Cardinality(grid) * THREADS_PER_BLOCK >= size(out)
        /\ \A w \in wlog :
              /\ LinearIndex(w) < size(out)
              /\ w.k = 1
              /\ w.slot = index_to_position(to_index(LinearIndex(w), out.shape), out.strides)

\* a step of a thread at or past out.size changes nothing but the thread's position
IdleThreadStep ==
    \A thr \in DOMAIN pc :
        (/\ op \in {"map", "zip"}
         /\ pc[thr] = "run"
         /\ pc' = [pc EXCEPT ![thr] = "exit"]
         /\ block[1] * THREADS_PER_BLOCK + thr[1] >= size(out))
            => UNCHANGED <<a, b, out, wlog, oob, host>>

\* while a launch runs the storages of its inputs do not change
InputFrame == host = "running" => (a' = a /\ b' = b)

Was2D(t) == Len(t.shape) = 2

\* C19: the kernel sees every operand as 3D, a 2D operand as one batch of its own
\* shape; the tensor matrix_multiply returns is 2D exactly when both operands were
\* 2D, and when only one was 2D it keeps the batch dimension of the other.
C19_RankNormalization ==
    op = "matmul" =>
        /\ Len(a.shape) = 3 /\ Len(b.shape) = 3
        /\ Was2D(src.a) => a.shape = <<1>> \o src.a.shape
        /\ Was2D(src.b) => b.shape = <<1>> \o src.b.shape
        /\ host = "returned" =>
              /\ Len(out.shape) = 2 <=> (Was2D(src.a) /\ Was2D(src.b))
              /\ (Was2D(src.a) /\ ~Was2D(src.b)) =>
                     out.shape = <<b.shape[1], a.shape[2], b.shape[3]>>
              /\ (~Was2D(src.a) /\ Was2D(src.b)) =>
                     out.shape = <<a.shape[1], a.shape[2], b.shape[3]>>

\* a 2D a against a b of two batches: the result has two batches
C19_Witness ==
    /\ op = "matmul"
    /\ host = "returned"
    /\ Was2D(src.a)
    /\ src.b.shape[1] = 2 /\ Len(src.b.shape) = 3
    /\ Len(out.shape) = 3
    /\ out.shape[1] = 2

\* the number of K-chunks of the launch
Chunks == Ceil(a.shape[3], TILE_DIM)

\* thread thr of the resident block lies outside the output matrix
Outside(thr) == ~MatGuard(block[3], RowOf(block, thr), ColOf(block, thr))

\* every barrier released so far was reached by the whole block, a thread that has
\* left the loop has staged and accumulated every chunk, and a block whose threads
\* have all exited has gone through two barriers per chunk
UniformBarriers ==
    (op = "matmul" /\ block # NoBlock) =>
        /\ \A g \in 1..Len(bar) : bar[g] = DOMAIN pc
        /\ \A t \in DOMAIN pc :
              pc[t] \in {"store", "exit"} =>
                  local[t].loads = Chunks /\ local[t].reads = Chunks
        /\ (\A t \in DOMAIN pc : pc[t] = "exit") => Len(bar) = 2 * Chunks

\* C20: every thread of a matmul block, also one whose (i, j) lies outside the output
\* matrix, runs ceil(K / BLOCK_DIM) chunk iterations and reaches both barriers of each
\* one; no thread stays at a barrier: every launch returns, which it does only when
\* every block of its grid has been resident and has retired.
C20_UniformBarriers ==
    /\ []UniformBarriers
    /\ (op = "matmul" /\ host = "running") ~> (host = "returned")

\* a thread outside the output matrix that has been through both chunks of its block
C20_Witness ==
    /\ op = "matmul"
    /\ block # NoBlock
    /\ Chunks = 2
    /\ Len(bar) = 4
    /\ \E t \in DOMAIN pc : Outside(t) /\ pc[t] = "exit" /\ local[t].loads = 2

RECURSIVE StorageSum(_, _, _)
StorageSum(t, lo, hi) ==
    IF hi < lo THEN 0 ELSE t.storage[hi] + StorageSum(t, lo, hi - 1)

\* the blocks of a practice launch that hold an in-range element
InRangeBlocks == {blk \in grid : blk[1] * PRACTICE_DIM < size(src)}

PracticeLaunched == op = "practice" /\ host # "idle"

\* the launch has n // 32 + 1 blocks
PracticeGridSize == Cardinality(grid) = (size(src) \div PRACTICE_DIM) + 1

\* every store is the one store of thread 0 of a block with an in-range element, to out[k]
PracticeStoresByBlock ==
    \A w \in wlog :
        /\ w.blk \in InRangeBlocks
        /\ w.thr = <<0, 0, 0>>
        /\ w.k = 1
        /\ w.slot = w.blk[1]

\* every store lands inside the storage of out
PracticeStoresInside == \A w \in wlog : w.slot \in DOMAIN out.storage

\* a block that has stored left the sum of its part of the input at out[k]
PracticeSums ==
    \A w \in wlog :
        w.slot \in DOMAIN out.storage =>
            out.storage[w.slot] =
                StorageSum(src, w.blk[1] * PRACTICE_DIM,
                           Min(size(src), (w.blk[1] + 1) * PRACTICE_DIM) - 1)

\* at the return every block with an in-range element has stored
PracticeAllStored ==
    host = "returned" => \A blk \in InRangeBlocks : \E w \in wlog : w.blk = blk

\* C21: for every input length n, sum_practice launches n // BLOCK_DIM + 1 blocks, every
\* block k that holds an in-range element writes to out[k] the sum of
\* a[BLOCK_DIM*k .. min(n, BLOCK_DIM*k + BLOCK_DIM) - 1], and every such write lands
\* inside the 2-cell storage of out that sum_practice allocates.
C21_PracticeSum ==
    PracticeLaunched =>
        /\ PracticeGridSize
        /\ PracticeStoresByBlock
        /\ PracticeSums
        /\ PracticeAllStored
        /\ PracticeStoresInside

====
